---- MODULE Spec2Model ----
(***************************************************************************)
(* A model of the job scraper: src/scraper.py (normalisation, the filters, *)
(* the two source adapters, deduplication, the table builder and          *)
(* collect_jobs), src/main.py (the command line) and src/app.py (the       *)
(* dashboard).                                                             *)
(*                                                                         *)
(* A Python str whose characters matter (title, company, country, link,    *)
(* keywords) is a sequence of one-character strings, so that lower(),      *)
(* upper(), split(), strip() and the substring test are computed and not   *)
(* assumed.  A str that is only carried along (city, salary, ...) is a     *)
(* TLA+ string.  An Optional value is a record [some, v].                  *)
(***************************************************************************)
EXTENDS Integers, Sequences, FiniteSets, TLC

\* ------------------------------------------------------------------ bounds

\* Longest title, in tokens of TitleTokens, given to passes_keyword_filters.
MaxTitleTokens == 3
\* Longest exclusion list given to passes_keyword_filters.
MaxExcludes == 2
\* Longest country code, in characters, and longest allow-list.
MaxCodeLen == 2
MaxCountries == 2
\* Longest input of deduplicate_jobs.
MaxJobs == 3
\* Most offers in one JSON payload and most cards in one HTML page.
MaxOffers == 2
MaxCards == 2

\* ------------------------------------------------------------- str helpers

UpperChars ==
    << "A", "B", "C", "D", "E", "F", "G", "H", "I", "J", "K", "L", "M",
       "N", "O", "P", "Q", "R", "S", "T", "U", "V", "W", "X", "Y", "Z" >>

LowerChars ==
    << "a", "b", "c", "d", "e", "f", "g", "h", "i", "j", "k", "l", "m",
       "n", "o", "p", "q", "r", "s", "t", "u", "v", "w", "x", "y", "z" >>

\* The characters str.split() and str.strip() treat as white space.
Whitespace == {" ", "\t", "\n"}

Range(s) == {s[i] : i \in DOMAIN s}

\* All sequences over S of length at most n.
SeqsUpTo(S, n) == UNION {[1..k -> S] : k \in 0..n}

\* str.lower() and str.upper(), character by character.
lower_char(c) ==
    IF \E i \in DOMAIN UpperChars : UpperChars[i] = c
    THEN LowerChars[CHOOSE i \in DOMAIN UpperChars : UpperChars[i] = c]
    ELSE c

upper_char(c) ==
    IF \E i \in DOMAIN LowerChars : LowerChars[i] = c
    THEN UpperChars[CHOOSE i \in DOMAIN LowerChars : LowerChars[i] = c]
    ELSE c

str_lower(s) == [i \in 1..Len(s) |-> lower_char(s[i])]

str_upper(s) == [i \in 1..Len(s) |-> upper_char(s[i])]

\* str.split() with no argument: the maximal runs of non-white-space.
RECURSIVE split_acc(_, _, _)
split_acc(s, cur, acc) ==
    IF s = <<>>
    THEN IF cur = <<>> THEN acc ELSE Append(acc, cur)
    ELSE IF Head(s) \in Whitespace
         THEN split_acc(Tail(s), <<>>, IF cur = <<>> THEN acc ELSE Append(acc, cur))
         ELSE split_acc(Tail(s), Append(cur, Head(s)), acc)

str_split(s) == split_acc(s, <<>>, <<>>)

\* sep.join(parts)
RECURSIVE str_join(_, _)
str_join(sep, parts) ==
    IF parts = <<>> THEN <<>>
    ELSE IF Len(parts) = 1 THEN parts[1]
    ELSE parts[1] \o sep \o str_join(sep, Tail(parts))

\* str.strip()
RECURSIVE str_lstrip(_)
str_lstrip(s) ==
    IF s # <<>> /\ Head(s) \in Whitespace THEN str_lstrip(Tail(s)) ELSE s

RECURSIVE str_rstrip(_)
str_rstrip(s) ==
    IF s # <<>> /\ s[Len(s)] \in Whitespace
    THEN str_rstrip(SubSeq(s, 1, Len(s) - 1))
    ELSE s

str_strip(s) == str_rstrip(str_lstrip(s))

\* needle in hay, for two str: hay has needle as a contiguous substring.
str_contains(hay, needle) ==
    \E i \in 0..(Len(hay) - Len(needle)) :
        SubSeq(hay, i + 1, i + Len(needle)) = needle

\* s.startswith(prefix)
str_startswith(s, prefix) ==
    Len(s) >= Len(prefix) /\ SubSeq(s, 1, Len(prefix)) = prefix

\* str.split(sep) for a one-character separator: every piece, empty ones too.
RECURSIVE split_on_acc(_, _, _, _)
split_on_acc(s, sep, cur, acc) ==
    IF s = <<>> THEN Append(acc, cur)
    ELSE IF Head(s) = sep
         THEN split_on_acc(Tail(s), sep, <<>>, Append(acc, cur))
         ELSE split_on_acc(Tail(s), sep, Append(cur, Head(s)), acc)

str_split_on(s, sep) == split_on_acc(s, sep, <<>>, <<>>)

\* Optional values: Some(x), and Nothing for None.
Some(x) == [some |-> TRUE, v |-> x]

Nothing == [some |-> FALSE, v |-> <<>>]

\* None where the value would be a TLA+ string, a number or a Boolean.
NoText == [some |-> FALSE, v |-> ""]

NoNumber == [some |-> FALSE, v |-> 0]

NoFlag == [some |-> FALSE, v |-> FALSE]

\* ------------------------------------------------------ program constants

INCLUDE_KEYWORDS ==
    << << "d", "a", "t", "a", " ", "a", "n", "a", "l", "y", "s", "t" >>,
       << "d", "a", "t", "a", " ", "s", "c", "i", "e", "n", "t", "i", "s", "t" >>,
       << "b", "u", "s", "i", "n", "e", "s", "s", " ", "a", "n", "a", "l", "y", "s", "t" >>,
       << "b", "i", " ", "d", "e", "v", "e", "l", "o", "p", "e", "r" >>,
       << "a", "n", "a", "l", "y", "t", "i", "c", "s", " ", "e", "n", "g", "i", "n", "e", "e", "r" >> >>

DEFAULT_EXCLUDE_KEYWORDS == << << "m", "a", "n", "a", "g", "e", "r" >> >>

\* ------------------------------------------------------------ the filters

normalized_text(text) == str_join(<< " " >>, str_split(str_lower(text)))

\* The filter with the title matched as it came, not normalised.
passes_keyword_filters_raw_title(title, exclude_keywords) ==
    /\ \E k \in DOMAIN INCLUDE_KEYWORDS : str_contains(title, INCLUDE_KEYWORDS[k])
    /\ ~ \E k \in DOMAIN exclude_keywords : str_contains(title, exclude_keywords[k])

passes_keyword_filters(title, exclude_keywords) ==
    LET normalized == normalized_text(title) IN
    IF ~ \E k \in DOMAIN INCLUDE_KEYWORDS :
             str_contains(normalized, INCLUDE_KEYWORDS[k])
    THEN FALSE
    ELSE IF \E k \in DOMAIN exclude_keywords :
                str_contains(normalized, exclude_keywords[k])
         THEN FALSE
         ELSE TRUE

\* The filter with `country_filter is None` for `not country_filter`.
within_country_filter_none_only(country, country_filter) ==
    IF ~ country_filter.some
    THEN TRUE
    ELSE str_upper(country) \in {str_upper(country_filter.v[i]) : i \in DOMAIN country_filter.v}

\* country_filter is Optional[List[str]]: `not country_filter` is true of None
\* and of the empty list.
within_country_filter(country, country_filter) ==
    IF ~ country_filter.some \/ country_filter.v = <<>>
    THEN TRUE
    ELSE str_upper(country) \in {str_upper(country_filter.v[i]) : i \in DOMAIN country_filter.v}


\* ------------------------------------------------------------- the records

JobPosting(source, title, company, salary, city, country, remote, tech_stack, date_posted, link) ==
    [source |-> source, title |-> title, company |-> company, salary |-> salary,
     city |-> city, country |-> country, remote |-> remote,
     tech_stack |-> tech_stack, date_posted |-> date_posted, link |-> link]

\* ---------------------------------------------------------- deduplication

dedup_key_raw(job) == << job.company, job.title >>

\* key = (normalized_text(job.company), normalized_text(job.title))
dedup_key(job) == << normalized_text(job.company), normalized_text(job.title) >>

RECURSIVE dedup_loop(_, _, _)
dedup_loop(jobs, seen, unique_jobs) ==
    IF jobs = <<>> THEN unique_jobs
    ELSE LET job == Head(jobs)
             key == dedup_key(job)
         IN  IF key \in seen
             THEN dedup_loop(Tail(jobs), seen, unique_jobs)
             ELSE dedup_loop(Tail(jobs), seen \cup {key}, Append(unique_jobs, job))

\* A deduplication that lets the later record of a key replace the earlier.
RECURSIVE dedup_last_loop(_, _)
dedup_last_loop(jobs, unique_jobs) ==
    IF jobs = <<>> THEN unique_jobs
    ELSE LET job == Head(jobs)
             key == dedup_key(job)
         IN  IF \E i \in DOMAIN unique_jobs : dedup_key(unique_jobs[i]) = key
             THEN dedup_last_loop(Tail(jobs),
                    [i \in DOMAIN unique_jobs |->
                        IF dedup_key(unique_jobs[i]) = key THEN job ELSE unique_jobs[i]])
             ELSE dedup_last_loop(Tail(jobs), Append(unique_jobs, job))

deduplicate_jobs_last(jobs) == dedup_last_loop(jobs, <<>>)

deduplicate_jobs(jobs) == dedup_loop(jobs, {}, <<>>)

\* ---------------------------------------------------------------- the table

COLUMNS ==
    << "Source", "Job Title", "Company", "Salary", "City", "Country", "Remote",
       "Tech Stack", "Date Posted", "Link" >>

\* One row of the table: the dict build_dataframe makes of a record.
dataframe_row(job) ==
    [c \in Range(COLUMNS) |->
        CASE c = "Source" -> job.source
          [] c = "Job Title" -> job.title
          [] c = "Company" -> job.company
          [] c = "Salary" -> job.salary
          [] c = "City" -> job.city
          [] c = "Country" -> job.country
          [] c = "Remote" -> job.remote
          [] c = "Tech Stack" -> job.tech_stack
          [] c = "Date Posted" -> job.date_posted
          [] c = "Link" -> job.link]

\* pd.DataFrame(list of dicts): the columns are the keys of the dicts in
\* insertion order; of an empty list it has no columns at all.
build_dataframe(jobs) ==
    [columns |-> IF jobs = <<>> THEN <<>> ELSE COLUMNS,
     rows |-> [i \in 1..Len(jobs) |-> dataframe_row(jobs[i])]]


\* ------------------------------------------------- the structured-API adapter

\* The endpoints of fetch_justjoin_jobs, in the order of its list.
endpoints ==
    << "https://justjoin.it/api/offers",
       "https://justjoin.it/api/offers?",
       "https://justjoin.it/api/offers?language=en" >>

\* "sep".join(parts) for TLA+ strings.
RECURSIVE text_join(_, _)
text_join(sep, parts) ==
    IF parts = <<>> THEN ""
    ELSE IF Len(parts) = 1 THEN parts[1]
    ELSE parts[1] \o sep \o text_join(sep, Tail(parts))

\* What dateutil's parser makes of the date strings of the model; it raises
\* ValueError on every other string.
ParsedDates == [d \in {"2024-01-05T10:00:00Z"} |-> "2024-01-05"]

safe_date(value) ==
    IF ~ value.some \/ value.v = "" THEN ""
    ELSE IF value.v \in DOMAIN ParsedDates THEN ParsedDates[value.v]
    ELSE ""

\* One employment entry's contribution: a one-element list, or nothing when
\* the salary, an amount or the currency is missing or falsy (0, "").
salary_piece(employment) ==
    LET salary == employment.salary IN
    IF ~ salary.some THEN <<>>
    ELSE LET from_amount == salary.v.from
             to_amount == salary.v.to
             currency == salary.v.currency
         IN  IF /\ from_amount.some /\ from_amount.v # 0
                /\ to_amount.some /\ to_amount.v # 0
                /\ currency.some /\ currency.v # ""
             THEN << ToString(from_amount.v) \o " - " \o ToString(to_amount.v)
                       \o " " \o currency.v >>
             ELSE <<>>

RECURSIVE salary_pieces(_)
salary_pieces(employment_types) ==
    IF employment_types = <<>> THEN <<>>
    ELSE salary_piece(Head(employment_types)) \o salary_pieces(Tail(employment_types))

format_salary(employment_types) ==
    IF employment_types = <<>> THEN ""
    ELSE text_join("; ", salary_pieces(employment_types))

\* offer.get(k) or default, for a key whose value is a str or a list.
or_else(opt, default) == IF opt.some THEN opt.v ELSE default

\* The body of the loop over the payload, for an offer that is a dict.
offer_to_job(offer) ==
    JobPosting("JustJoin.it",
               or_else(offer.title, <<>>),
               or_else(offer.company_name, <<>>),
               format_salary(or_else(offer.employment_types, <<>>)),
               or_else(offer.city, <<>>),
               or_else(offer.country_code, <<>>),
               IF offer.remote.some /\ offer.remote.v THEN "Yes" ELSE "No",
               text_join(", ", or_else(offer.skills, <<>>)),
               safe_date(offer.published_at),
               or_else(offer.url, <<>>))

\* What fetch_justjoin_jobs does once the endpoint loop is over: its return
\* value, the line it prints, or the exception it lets escape.
Returned(jobs, diag) == [raised |-> FALSE, exc |-> "", jobs |-> jobs, diag |-> diag]

Raised(exc) == [raised |-> TRUE, exc |-> exc, jobs |-> <<>>, diag |-> <<>>]

Diagnostic(source, error) == [source |-> source, error |-> error]

justjoin_raise_on_failure(payload, last_error) ==
    IF ~ payload.some
    THEN Raised(last_error)
    ELSE Returned([i \in DOMAIN payload.v.items |-> offer_to_job(payload.v.items[i])], <<>>)

justjoin_finish(payload, last_error) ==
    IF ~ payload.some
    THEN Returned(<<>>, << Diagnostic("JustJoin", last_error) >>)
    ELSE IF \E i \in DOMAIN payload.v.items : ~ payload.v.items[i].is_dict
         THEN Raised("AttributeError")
         ELSE Returned([i \in DOMAIN payload.v.items |-> offer_to_job(payload.v.items[i])],
                       <<>>)

\* ---------------------------------------------------- the HTML-listing adapter

GermanTechJobsUrl == "https://germantechjobs.de/jobs"

GermanTechJobsHost ==
    << "h", "t", "t", "p", "s", ":", "/", "/", "g", "e", "r", "m", "a", "n", "t", "e",
       "c", "h", "j", "o", "b", "s", ".", "d", "e" >>

\* a or b or c, for three select_one results: the first tag that is there
\* (a Tag is truthy even when it has no text).
first_tag(a, b, c) == IF a.some THEN a ELSE IF b.some THEN b ELSE c

\* tag.get_text(strip=True) if tag else ""
tag_text(tag) == IF tag.some THEN str_strip(tag.v) ELSE <<>>

card_title(card) == tag_text(first_tag(card.h2, card.h3, card.job_title))

card_link(card) ==
    LET link == IF card.name = "a"
                THEN or_else(card.href, <<>>)
                ELSE or_else(card.a_href, <<>>)
    IN  IF link # <<>> /\ str_startswith(link, << "/" >>)
        THEN GermanTechJobsHost \o link
        ELSE link

card_to_job(card) ==
    JobPosting("GermanTechJobs.de",
               card_title(card),
               tag_text(first_tag(card.company, card.company_name, card.job_company)),
               "",
               tag_text(first_tag(card.location, card.job_location, card.locations)),
               << "D", "E" >>,
               "",
               "",
               "",
               card_link(card))

\* The loop over the cards: a card with no title text is skipped.
RECURSIVE cards_to_jobs(_)
cards_to_jobs(cards) ==
    IF cards = <<>> THEN <<>>
    ELSE IF card_title(Head(cards)) = <<>>
         THEN cards_to_jobs(Tail(cards))
         ELSE << card_to_job(Head(cards)) >> \o cards_to_jobs(Tail(cards))

\* html is the page as the selectors see it: the elements the primary
\* selector matches and the anchors the fallback selector matches.
parse_germantechjobs_html(html) ==
    LET cards == IF html.cards # <<>> THEN html.cards ELSE html.anchors
    IN  cards_to_jobs(cards)

fetch_germantechjobs(response) ==
    IF ~ response.ok
    THEN Returned(<<>>, << Diagnostic("GermanTechJobs", response.error) >>)
    ELSE Returned(parse_germantechjobs_html(response.html), <<>>)

\* ------------------------------------------------------------ collect_jobs

\* collect_jobs from its filter on: filter the merged list, deduplicate it,
\* build the table.
filter_jobs(jobs, countries, exclude_keywords) ==
    SelectSeq(jobs, LAMBDA job :
        /\ passes_keyword_filters(job.title, or_else(exclude_keywords, <<>>))
        /\ within_country_filter(job.country, countries))

collect_result_last_wins(jobs, countries, exclude_keywords) ==
    build_dataframe(deduplicate_jobs_last(filter_jobs(jobs, countries, exclude_keywords)))

collect_result(jobs, countries, exclude_keywords) ==
    build_dataframe(deduplicate_jobs(filter_jobs(jobs, countries, exclude_keywords)))


\* --------------------------------------------------------------- the inputs

\* Titles are built of these tokens.
TitleTokens ==
    { << "S", "e", "n", "i", "o", "r", " " >>,
      << "D", "a", "t", "a", " " >>,
      << "D", "A", "T", "A", " ", "\t" >>,
      << "A", "n", "a", "l", "y", "s", "t" >>,
      << " ", "M", "a", "n", "a", "g", "e", "r" >>,
      << "B", "I", " ", "D", "e", "v", "e", "l", "o", "p", "e", "r" >> }

RECURSIVE concat_all(_)
concat_all(parts) ==
    IF parts = <<>> THEN <<>> ELSE Head(parts) \o concat_all(Tail(parts))

Titles == {concat_all(ts) : ts \in SeqsUpTo(TitleTokens, MaxTitleTokens)}

\* Exclusion keywords: lower case, with an upper-case letter, and empty.
ExcludePool ==
    { << "m", "a", "n", "a", "g", "e", "r" >>,
      << "s", "e", "n", "i", "o", "r" >>,
      << "S", "e", "n", "i", "o", "r" >>,
      <<>> }

ExcludeLists == SeqsUpTo(ExcludePool, MaxExcludes)

CodeChars == {"p", "P", "l", "L", "d", "E"}

CountryCodes == SeqsUpTo(CodeChars, MaxCodeLen)

AllowPool == { << "P", "L" >>, << "D", "E" >>, << "p", "l" >>, <<>> }

AllowLists == {Nothing} \cup {Some(l) : l \in SeqsUpTo(AllowPool, MaxCountries)}

s_DataAnalyst == << "D", "a", "t", "a", " ", "A", "n", "a", "l", "y", "s", "t" >>

s_DataAnalystLoose ==
    << " ", "D", "A", "T", "A", " ", " ", "a", "n", "a", "l", "y", "s", "t", " " >>

s_DataScientist ==
    << "D", "a", "t", "a", " ", "S", "c", "i", "e", "n", "t", "i", "s", "t" >>

s_SeniorDataAnalyst ==
    << "S", "e", "n", "i", "o", "r", " ", "D", "a", "t", "a", " ", "A", "n", "a", "l",
       "y", "s", "t" >>

s_BIDeveloper == << "B", "I", " ", "D", "e", "v", "e", "l", "o", "p", "e", "r" >>

s_Acme == << "A", "c", "m", "e" >>

s_acme == << "a", "c", "m", "e" >>

s_Beta == << "B", "e", "t", "a" >>

\* Records given to deduplicate_jobs: two of one key from two sources, one
\* of the same company under another title, one of another company.
PlainJob(source, title, company, link) ==
    JobPosting(source, title, company, "", <<>>, << "D", "E" >>, "", "", "", link)

JobPool ==
    { PlainJob("JustJoin.it", s_DataAnalyst, s_Acme, << "1" >>),
      PlainJob("GermanTechJobs.de", s_DataAnalystLoose, s_acme, << "2" >>),
      PlainJob("JustJoin.it", s_DataScientist, s_Acme, << "3" >>),
      PlainJob("GermanTechJobs.de", s_DataAnalyst, s_Beta, << "4" >>) }

JobLists == SeqsUpTo(JobPool, MaxJobs)

\* The offers of the JSON payloads.
NoSalary == [some |-> FALSE, v |-> [from |-> NoNumber, to |-> NoNumber, currency |-> NoText]]

Salary(from, to, currency) ==
    [some |-> TRUE, v |-> [from |-> from, to |-> to, currency |-> currency]]

Offer(title, company_name, city, country_code, remote, skills, published_at, url, employment_types) ==
    [is_dict |-> TRUE, title |-> title, company_name |-> company_name, city |-> city,
     country_code |-> country_code, remote |-> remote, skills |-> skills,
     published_at |-> published_at, url |-> url, employment_types |-> employment_types]

\* What iterating a JSON object yields: a key, a str, which has no get().
NotADict ==
    [is_dict |-> FALSE, title |-> Nothing, company_name |-> Nothing, city |-> Nothing,
     country_code |-> Nothing, remote |-> NoFlag, skills |-> Nothing,
     published_at |-> NoText, url |-> Nothing, employment_types |-> Nothing]

OfferPool ==
    { Offer(Some(s_DataAnalyst), Some(s_Acme), Some(<< "W", "a", "w" >>),
            Some(<< "P", "L" >>), Some(TRUE), Some(<< "SQL", "Python" >>),
            Some("2024-01-05T10:00:00Z"), Some(<< "j", "j", "/", "1" >>),
            Some(<< [salary |-> Salary(Some(4000), Some(6000), Some("PLN"))],
                    [salary |-> Salary(Some(5000), NoNumber, Some("PLN"))],
                    [salary |-> NoSalary] >>)),
      Offer(Some(<<>>), Some(s_Acme), Nothing, Nothing, NoFlag, Nothing, NoText,
            Nothing, Nothing),
      Offer(Some(s_SeniorDataAnalyst), Some(s_Beta), Nothing, Some(<< "d", "e" >>),
            Some(FALSE), Some(<<>>), Some("not-a-date"), Some(<< "j", "j", "/", "3" >>),
            Some(<<>>)) }

NoPayload == [some |-> FALSE, v |-> [kind |-> "null", items |-> <<>>]]

Payloads ==
    {NoPayload}
      \cup {Some([kind |-> "object", items |-> << NotADict >>])}
      \cup {Some([kind |-> "list", items |-> os]) : os \in SeqsUpTo(OfferPool, MaxOffers)}

\* The ways a request fails: no answer, a status that raise_for_status
\* rejects, and (for response.json()) a body that is not JSON.
TransportErrors == {"Timeout", "HTTPError"}

ApiFailures ==
    {[ok |-> FALSE, error |-> e, json |-> NoPayload] :
        e \in TransportErrors \cup {"JSONDecodeError"}}

ApiResponses ==
    ApiFailures \cup {[ok |-> TRUE, error |-> "", json |-> p] : p \in Payloads}

\* The cards of the HTML pages.
Card(name, h2, h3, job_title, company, company_name, job_company, location, job_location, locations, href, a_href) ==
    [name |-> name, h2 |-> h2, h3 |-> h3, job_title |-> job_title,
     company |-> company, company_name |-> company_name, job_company |-> job_company,
     location |-> location, job_location |-> job_location, locations |-> locations,
     href |-> href, a_href |-> a_href]

CardPool ==
    { Card("article", Some(s_DataAnalystLoose), Nothing, Nothing,
           Some(s_acme), Nothing, Nothing, Nothing, Some(<< "B", "e", "r", " " >>), Nothing,
           Nothing, Some(<< "/", "j", "o", "b", "s", "/", "1" >>)),
      Card("div", Some(<< " " >>), Some(s_DataScientist), Nothing,
           Nothing, Nothing, Nothing, Nothing, Nothing, Nothing,
           Nothing, Nothing),
      Card("div", Nothing, Some(s_DataScientist), Some(s_DataAnalyst),
           Nothing, Nothing, Some(s_Beta), Nothing, Nothing, Nothing,
           Nothing, Some(<< "g", "t", "j", "/", "3" >>)) }

AnchorPool ==
    { Card("a", Nothing, Nothing, Some(s_BIDeveloper),
           Nothing, Nothing, Nothing, Nothing, Nothing, Nothing,
           Some(<< "/", "j", "o", "b", "s", "/", "9" >>), Nothing) }

NoHtml == [cards |-> <<>>, anchors |-> <<>>]

HtmlPages ==
    {[cards |-> cs, anchors |-> as] :
        cs \in SeqsUpTo(CardPool, MaxCards),
        as \in {<<>>} \cup {<< a >> : a \in AnchorPool}}

HtmlFailures == {[ok |-> FALSE, error |-> e, html |-> NoHtml] : e \in TransportErrors}

HtmlResponses ==
    HtmlFailures \cup {[ok |-> TRUE, error |-> "", html |-> h] : h \in HtmlPages}


\* The arguments collect_jobs is called with when it is called directly.
CallCountries == {Nothing, Some(<< << "d", "e" >> >>)}

CallExcludes == {Nothing, Some(<< << "s", "e", "n", "i", "o", "r" >> >>)}

\* The command line: --countries and --exclude are absent or lists of words.
CliCountries == {Nothing, Some(<<>>), Some(<< << "P", "L" >>, << "D", "E" >> >>)}

CliExcludes ==
    {Nothing, Some(<<>>), Some(<< << "l", "e", "a", "d" >> >>),
     Some(<< << "S", "e", "n", "i", "o", "r" >>, << "l", "e", "a", "d" >> >>)}

\* The dashboard's two text inputs.
DashboardCountries ==
    { << "P", "L", ",", " ", "D", "E" >>, <<>>, << " ", ",", "d", "e" >> }

DashboardExtras ==
    { <<>>, << " " >>, << "L", "e", "a", "d", ",", " ", ",", "h", "e", "a", "d" >> }

\* ------------------------------------------------------------------- state

VARIABLES
    pc,                \* where the run is: idle, justjoin, justjoin_finish,
                       \* germantech, filter, done, raised
    cfg,               \* what the caller of the run supplied
    countries,         \* collect_jobs' argument
    exclude_keywords,  \* collect_jobs' argument
    requests,          \* the requests sent so far, in order, each with its fate
    payload,           \* fetch_justjoin_jobs' payload
    last_error,        \* fetch_justjoin_jobs' last_error
    stderr,            \* the diagnostics printed so far
    jobs,              \* collect_jobs' jobs
    exception,         \* the exception that ended the run, if one did
    df,                \* the table collect_jobs returned, once it has
    call,              \* the arguments of the function under test
    ret                \* its return value, once it has returned

vars ==
    << pc, cfg, countries, exclude_keywords, requests, payload, last_error, stderr,
       jobs, exception, df, call, ret >>

run_vars ==
    << pc, cfg, countries, exclude_keywords, requests, payload, last_error, stderr,
       jobs, exception, df >>

NoCfg == [entry |-> "none", supplied |-> <<>>, senior |-> FALSE, intern |-> FALSE]

NoTable == [some |-> FALSE, v |-> [columns |-> <<>>, rows |-> <<>>]]

NoCall == [fn |-> "none"]

RunInit ==
    /\ pc = "idle"
    /\ cfg = NoCfg
    /\ countries = Nothing
    /\ exclude_keywords = Nothing
    /\ requests = <<>>
    /\ payload = NoPayload
    /\ last_error = NoText
    /\ stderr = <<>>
    /\ jobs = <<>>
    /\ exception = NoText
    /\ df = NoTable

\* ------------------------------------------------------------ the front ends

w_senior == << "s", "e", "n", "i", "o", "r" >>

w_intern == << "i", "n", "t", "e", "r", "n" >>

\* The two toggles, each appending its keyword.
with_toggles(exclude_keywords_, exclude_senior, exclude_intern) ==
    exclude_keywords_
      \o (IF exclude_senior THEN << w_senior >> ELSE <<>>)
      \o (IF exclude_intern THEN << w_intern >> ELSE <<>>)

\* main.py: --exclude defaults to DEFAULT_EXCLUDE_KEYWORDS and, when given,
\* replaces it.
main_exclude_keywords(exclude, exclude_senior, exclude_intern) ==
    with_toggles(or_else(exclude, DEFAULT_EXCLUDE_KEYWORDS), exclude_senior,
                 exclude_intern)

\* [f(piece.strip()) for piece in text.split(",") if piece.strip()]
stripped_pieces(text) ==
    LET pieces == str_split_on(text, ",")
        kept == SelectSeq(pieces, LAMBDA piece : str_strip(piece) # <<>>)
    IN  [i \in DOMAIN kept |-> str_strip(kept[i])]

dashboard_extras(extra_excludes) ==
    IF str_strip(extra_excludes) # <<>>
    THEN LET kws == stripped_pieces(extra_excludes)
         IN  [i \in DOMAIN kws |-> str_lower(kws[i])]
    ELSE <<>>

dashboard_exclude_keywords(extra_excludes, exclude_senior, exclude_intern) ==
    with_toggles(DEFAULT_EXCLUDE_KEYWORDS \o dashboard_extras(extra_excludes),
                 exclude_senior, exclude_intern)

\* countries or None
dashboard_countries(countries_input) ==
    LET codes == stripped_pieces(countries_input)
    IN  IF codes = <<>> THEN Nothing ELSE Some(codes)

\* collect_jobs is entered: its arguments are bound and its session made.
Enter(entry, supplied, senior, intern, countries_, exclude_keywords_) ==
    /\ pc' = "justjoin"
    /\ cfg' = [entry |-> entry, supplied |-> supplied, senior |-> senior,
               intern |-> intern]
    /\ countries' = countries_
    /\ exclude_keywords' = exclude_keywords_
    /\ UNCHANGED << requests, payload, last_error, stderr, jobs, exception, df,
                    call, ret >>

\* collect_jobs called directly, with or without its arguments.
CallCollectJobs ==
    /\ pc = "idle"
    /\ \E c \in CallCountries, e \in CallExcludes :
        Enter("call", or_else(e, <<>>), FALSE, FALSE, c, e)

\* python main.py [--countries ...] [--exclude ...] [--exclude-senior]
\* [--exclude-intern]
Main ==
    /\ pc = "idle"
    /\ \E c \in CliCountries, e \in CliExcludes, senior \in BOOLEAN, intern \in BOOLEAN :
        Enter("cli", or_else(e, <<>>), senior, intern, c,
              Some(main_exclude_keywords(e, senior, intern)))

\* The dashboard's Run Scraper button.
RunButton ==
    /\ pc = "idle"
    /\ \E c \in DashboardCountries, x \in DashboardExtras,
          senior \in BOOLEAN, intern \in BOOLEAN :
        Enter("dashboard", dashboard_extras(x), senior, intern,
              dashboard_countries(c),
              Some(dashboard_exclude_keywords(x, senior, intern)))

\* ------------------------------------------------------------ the run's steps

ApiRequests == SelectSeq(requests, LAMBDA r : r.url # GermanTechJobsUrl)

\* One turn of the endpoint loop: the next endpoint is requested; a failure
\* moves on to the next one, an answer that parses ends the loop.
TryEndpoint(responses) ==
    /\ Len(requests) < Len(endpoints)
    /\ \E r \in responses :
        LET url == endpoints[Len(requests) + 1] IN
        /\ requests' = Append(requests, [url |-> url, ok |-> r.ok])
        /\ IF r.ok
           THEN /\ payload' = r.json
                /\ last_error' = last_error
                /\ pc' = "justjoin_finish"
           ELSE /\ payload' = payload
                /\ last_error' = Some(r.error)
                /\ pc' = IF Len(requests) + 1 = Len(endpoints)
                         THEN "justjoin_finish" ELSE "justjoin"
    /\ UNCHANGED << cfg, countries, exclude_keywords, stderr, jobs, exception, df,
                    call, ret >>

JustJoinRequest ==
    /\ pc = "justjoin"
    /\ TryEndpoint(ApiResponses)

\* str(last_error)
error_text(error) == IF error.some THEN error.v ELSE "None"

\* The rest of fetch_justjoin_jobs, and jobs.extend() of what it returns;
\* random_delay() follows and changes nothing.
JustJoinFinish ==
    /\ pc = "justjoin_finish"
    /\ LET out == justjoin_finish(payload, error_text(last_error)) IN
        IF out.raised
        THEN /\ pc' = "raised"
             /\ exception' = Some(out.exc)
             /\ UNCHANGED << stderr, jobs >>
        ELSE /\ pc' = "germantech"
             /\ stderr' = stderr \o out.diag
             /\ jobs' = jobs \o out.jobs
             /\ UNCHANGED exception
    /\ UNCHANGED << cfg, countries, exclude_keywords, requests, payload, last_error,
                    df, call, ret >>

\* fetch_germantechjobs, and jobs.extend() of what it returns.
FetchGermanTechJobs(responses) ==
    /\ \E r \in responses :
        LET out == fetch_germantechjobs(r) IN
        /\ requests' = Append(requests, [url |-> GermanTechJobsUrl, ok |-> r.ok])
        /\ stderr' = stderr \o out.diag
        /\ jobs' = jobs \o out.jobs
    /\ pc' = "filter"
    /\ UNCHANGED << cfg, countries, exclude_keywords, payload, last_error, exception,
                    df, call, ret >>

GermanTechJobsRequest ==
    /\ pc = "germantech"
    /\ FetchGermanTechJobs(HtmlResponses)

\* The filter, the deduplication and the table, and the return.
FilterDedupBuild ==
    /\ pc = "filter"
    /\ df' = Some(collect_result(jobs, countries, exclude_keywords))
    /\ pc' = "done"
    /\ UNCHANGED << cfg, countries, exclude_keywords, requests, payload, last_error,
                    stderr, jobs, exception, call, ret >>

\* ------------------------------------------------------- the specifications

\* A run of collect_jobs against the two sources.
Init == RunInit /\ call = NoCall /\ ret = Nothing

Next ==
    \/ CallCollectJobs
    \/ JustJoinRequest
    \/ JustJoinFinish
    \/ GermanTechJobsRequest
    \/ FilterDedupBuild

Spec == Init /\ [][Next]_vars

\* The three ways into collect_jobs, with both sources out of reach.
JustJoinUnreachable ==
    /\ pc = "justjoin"
    /\ TryEndpoint({r \in ApiFailures : r.error = "Timeout"})

GermanTechJobsUnreachable ==
    /\ pc = "germantech"
    /\ FetchGermanTechJobs({r \in HtmlFailures : r.error = "Timeout"})

NextFrontEnd ==
    \/ Main
    \/ RunButton
    \/ CallCollectJobs
    \/ JustJoinUnreachable
    \/ JustJoinFinish
    \/ GermanTechJobsUnreachable
    \/ FilterDedupBuild

SpecFrontEnd == Init /\ [][NextFrontEnd]_vars

\* passes_keyword_filters on every title and exclusion list of the bounds.
InitKeyword ==
    /\ RunInit
    /\ call \in {[fn |-> "passes_keyword_filters", title |-> t, exclude_keywords |-> e] :
                    t \in Titles, e \in ExcludeLists}
    /\ ret = NoFlag

CallPassesKeywordFilters ==
    /\ call.fn = "passes_keyword_filters"
    /\ ~ ret.some
    /\ ret' = Some(passes_keyword_filters(call.title, call.exclude_keywords))
    /\ UNCHANGED << run_vars, call >>

SpecKeyword == InitKeyword /\ [][CallPassesKeywordFilters]_vars

\* within_country_filter on every code and allow-list of the bounds.
InitCountry ==
    /\ RunInit
    /\ call \in {[fn |-> "within_country_filter", country |-> c, country_filter |-> f] :
                    c \in CountryCodes, f \in AllowLists}
    /\ ret = NoFlag

CallWithinCountryFilter ==
    /\ call.fn = "within_country_filter"
    /\ ~ ret.some
    /\ ret' = Some(within_country_filter(call.country, call.country_filter))
    /\ UNCHANGED << run_vars, call >>

SpecCountry == InitCountry /\ [][CallWithinCountryFilter]_vars

\* deduplicate_jobs on every list of the bounds.
InitDedup ==
    /\ RunInit
    /\ call \in {[fn |-> "deduplicate_jobs", jobs |-> js] : js \in JobLists}
    /\ ret = Nothing

CallDeduplicateJobs ==
    /\ call.fn = "deduplicate_jobs"
    /\ ~ ret.some
    /\ ret' = Some(deduplicate_jobs(call.jobs))
    /\ UNCHANGED << run_vars, call >>

SpecDedup == InitDedup /\ [][CallDeduplicateJobs]_vars


\* ------------------------------------------------------------------ claims

\* The notions the claims are stated in.

\* needle is a substring of hay: some stretch of hay, from a to b, is needle.
IsSubstring(needle, hay) ==
    \E a \in 0..Len(hay) : \E b \in a..Len(hay) : SubSeq(hay, a + 1, b) = needle

\* The deduplication key of a record: (normalized company, normalized title).
KeyOf(job) == << normalized_text(job.company), normalized_text(job.title) >>

\* The same key, read off a row of the table.
KeyOfRow(row) == << normalized_text(row["Company"]), normalized_text(row["Job Title"]) >>

PassesFilters(job) ==
    /\ passes_keyword_filters(job.title, or_else(exclude_keywords, <<>>))
    /\ within_country_filter(job.country, countries)

FromApi(job) == job.source = "JustJoin.it"

FromHtml(job) == job.source = "GermanTechJobs.de"

\* jobs[a] is a structured-API record and jobs[h] an HTML record, both pass
\* the filters and they share a key.
CrossSourceDuplicate(a, h) ==
    /\ FromApi(jobs[a])
    /\ FromHtml(jobs[h])
    /\ PassesFilters(jobs[a])
    /\ PassesFilters(jobs[h])
    /\ KeyOf(jobs[a]) = KeyOf(jobs[h])

HtmlRequested == \E i \in DOMAIN requests : requests[i].url = GermanTechJobsUrl

AllEndpointsFailed ==
    /\ Len(ApiRequests) = Len(endpoints)
    /\ \A i \in DOMAIN ApiRequests : ~ ApiRequests[i].ok

JustJoinDiagnosed == \E i \in DOMAIN stderr : stderr[i].source = "JustJoin"

\* C1: neither adapter ever lets an exception reach its caller, whatever the
\* transport does and whatever the decoded payload looks like.
C1_AdaptersNeverThrow == ~ exception.some

\* C2: when every endpoint of the structured-API source has failed, the run
\* raises nothing, prints a diagnostic naming that source, takes no record
\* from it, still requests the HTML source, and returns exactly the HTML
\* records that pass the filters, one per deduplication key.
C2_ApiFailureIsolated ==
    AllEndpointsFailed =>
        /\ ~ exception.some
        /\ pc \in {"germantech", "filter", "done"} =>
              /\ JustJoinDiagnosed
              /\ \A i \in DOMAIN jobs : ~ FromApi(jobs[i])
        /\ pc = "done" =>
              /\ HtmlRequested
              /\ df.some
              /\ \A i \in DOMAIN df.v.rows :
                    \E j \in DOMAIN jobs :
                        /\ FromHtml(jobs[j])
                        /\ PassesFilters(jobs[j])
                        /\ df.v.rows[i] = dataframe_row(jobs[j])
              /\ \A j \in DOMAIN jobs :
                    FromHtml(jobs[j]) /\ PassesFilters(jobs[j]) =>
                        \E i \in DOMAIN df.v.rows : KeyOfRow(df.v.rows[i]) = KeyOf(jobs[j])

C2_Witness ==
    /\ pc = "done"
    /\ AllEndpointsFailed
    /\ df.some
    /\ df.v.rows # <<>>

\* C3: no record an adapter has returned has an empty title.
C3_NoTitlelessRecord == \A i \in DOMAIN jobs : jobs[i].title # <<>>

\* C4: passes_keyword_filters(T, excludes) is true exactly when the
\* normalized title has an inclusion keyword as a substring and has none of
\* the exclusion keywords, taken as they were given, as a substring.
C4_KeywordFilterIff ==
    (call.fn = "passes_keyword_filters" /\ ret.some) =>
        LET normalized == normalized_text(call.title) IN
        ret.v <=>
            /\ \E k \in Range(INCLUDE_KEYWORDS) : IsSubstring(k, normalized)
            /\ \A k \in Range(call.exclude_keywords) : ~ IsSubstring(k, normalized)

\* A title that says senior passes although "Senior" is excluded.
C4_Witness ==
    /\ call.fn = "passes_keyword_filters"
    /\ ret.some
    /\ ret.v
    /\ << "S", "e", "n", "i", "o", "r" >> \in Range(call.exclude_keywords)
    /\ IsSubstring(w_senior, normalized_text(call.title))
    /\ call.title # normalized_text(call.title)

\* C5: the exclusion list a run filters with holds the built-in default
\* exclusions, every keyword the caller supplied, and the keyword of each
\* toggle that is on.
C5_ExcludesAccumulate ==
    pc # "idle" =>
        LET used == Range(or_else(exclude_keywords, <<>>)) IN
        /\ Range(DEFAULT_EXCLUDE_KEYWORDS) \subseteq used
        /\ Range(cfg.supplied) \subseteq used
        /\ cfg.senior => w_senior \in used
        /\ cfg.intern => w_intern \in used

\* C6: within_country_filter(c, L) is true exactly when L is absent or empty
\* or the upper-cased c is the upper-cased form of a member of L.
C6_CountryFilterIff ==
    (call.fn = "within_country_filter" /\ ret.some) =>
        LET L == call.country_filter IN
        ret.v <=>
            \/ ~ L.some
            \/ Len(L.v) = 0
            \/ \E i \in DOMAIN L.v : str_upper(call.country) = str_upper(L.v[i])

\* The empty country under an empty allow-list, or a code that is in the
\* list only up to case.
C6_Witness ==
    /\ call.fn = "within_country_filter"
    /\ ret.some
    /\ ret.v
    /\ call.country_filter.some
    /\ \/ call.country_filter.v = <<>> /\ call.country = <<>>
       \/ /\ call.country_filter.v # <<>>
          /\ call.country \notin Range(call.country_filter.v)

\* C7: deduplicate_jobs returns the first record of each key, unmodified and
\* in input order: no key twice, every key of the input, and the output is
\* the input at increasing positions, each the earliest of its key.
C7_DedupFirstOccurrences ==
    (call.fn = "deduplicate_jobs" /\ ret.some) =>
        LET in == call.jobs
            out == ret.v
        IN  /\ \A i, j \in DOMAIN out : KeyOf(out[i]) = KeyOf(out[j]) => i = j
            /\ {KeyOf(in[i]) : i \in DOMAIN in} = {KeyOf(out[i]) : i \in DOMAIN out}
            /\ \E f \in [DOMAIN out -> DOMAIN in] :
                  /\ \A i, j \in DOMAIN out : i < j => f[i] < f[j]
                  /\ \A i \in DOMAIN out :
                        /\ out[i] = in[f[i]]
                        /\ \A j \in 1..(f[i] - 1) : KeyOf(in[j]) # KeyOf(in[f[i]])

\* Two different records of one key, and a record of another key after them.
C7_Witness ==
    /\ call.fn = "deduplicate_jobs"
    /\ ret.some
    /\ Len(ret.v) >= 2
    /\ \E i, j \in DOMAIN call.jobs :
          /\ i < j
          /\ call.jobs[i] # call.jobs[j]
          /\ KeyOf(call.jobs[i]) = KeyOf(call.jobs[j])

C9_TableHasTenColumns ==
    df.some =>
        /\ df.v.columns = COLUMNS
        /\ \A i \in DOMAIN df.v.rows : DOMAIN df.v.rows[i] = Range(COLUMNS)

\* C10, its first part: the endpoints are requested in the order of the list,
\* each only after all before it have failed, and none after one answered.
C10_FixedOrderShortCircuit ==
    /\ Len(ApiRequests) <= Len(endpoints)
    /\ \A i \in DOMAIN ApiRequests :
          /\ ApiRequests[i].url = endpoints[i]
          /\ \A j \in 1..(i - 1) : ~ ApiRequests[j].ok

\* C10: the endpoints are tried in order with the first answer ending the
\* chain, and the adapter prints its failure diagnostic and returns nothing
\* only after every endpoint has been tried and has failed.
C10_GiveUpOnlyAfterAllFailed ==
    /\ C10_FixedOrderShortCircuit
    /\ JustJoinDiagnosed => AllEndpointsFailed

====
